---- MODULE Spec2Model ----
(***************************************************************************)
(* A model of the multi-task text utility: the safety gate                 *)
(* (src/src/safety.py, SafetyChecker) and the query pipeline               *)
(* (src/src/run_query.py, TextUtility).                                    *)
(*                                                                         *)
(* Text is modelled at the level of words: a text is a sequence of words   *)
(* joined by single blanks, so the regular expressions' \s+ is the gap     *)
(* between two consecutive words.  Letter case is kept in the words, and   *)
(* re.IGNORECASE is modelled by case folding (lower) at match time.        *)
(***************************************************************************)
EXTENDS Integers, Sequences, FiniteSets, TLC

VARIABLES
    pc,                \* position of the running call
    question,          \* user_question / prompt argument
    check_safety,      \* process_query's check_safety argument
    moderation,        \* what client.moderations.create did on this call
    safety_result,     \* check_prompt's result dict
    moderation_calls,  \* calls of the moderation endpoint in this invocation
    patterns_scanned,  \* compiled patterns on which findall has been run
    completion_calls,  \* calls of the completion endpoint in this invocation
    prompt,            \* the prompt sent to the completion endpoint
    response,          \* what client.chat.completions.create did
    result,            \* the dict process_query returned
    clock,             \* time.time(), in milliseconds
    start_time,        \* process_query's start_time
    csv_file,          \* metrics/metrics.csv
    json_file,         \* metrics/metrics.json
    csv_before,        \* metrics.csv when the invocation began
    json_before,       \* metrics.json when the invocation began
    calls,             \* process_query invocations begun so far
    successes,         \* invocations that returned status success
    model,             \* TextUtility.model
    prompt_template,   \* TextUtility.prompt_template
    safe_response,     \* what get_safe_response returned
    writers            \* the processes running _log_metrics side by side

vars == <<pc, question, check_safety, moderation, safety_result,
          moderation_calls, patterns_scanned, completion_calls, prompt,
          response, result, clock, start_time, csv_file, json_file,
          csv_before, json_before, calls, successes, model,
          prompt_template, safe_response, writers>>

gate_vars == <<pc, question, check_safety, moderation, safety_result,
               moderation_calls, patterns_scanned, safe_response>>

pipeline_vars == <<completion_calls, prompt, response, result, clock,
                   start_time, csv_file, json_file, csv_before, json_before,
                   calls, successes, model, prompt_template, writers>>

\* what one process_query invocation never assigns
fixed_vars == <<model, prompt_template, safe_response, writers>>

(***************************************************************************)
(* Bounds of the model.                                                    *)
(***************************************************************************)
MaxWords == 2      \* words in a text
MaxCalls == 2      \* process_query invocations in one run
MaxClock == 1      \* milliseconds the clock may advance in one run

(***************************************************************************)
(* Texts.                                                                  *)
(***************************************************************************)
Vocabulary ==
    {"ignore", "IGNORE", "all", "instructions", "disregard", "rules",
     "forget", "system", "injection", "jailbreak", "JailBreak", "weather",
     "{question}"}

\* str.lower() as re.IGNORECASE applies it to the text
lower(w) ==
    CASE w = "IGNORE" -> "ignore"
      [] w = "JailBreak" -> "jailbreak"
      [] OTHER -> w

Texts == UNION {[1..n -> Vocabulary] : n \in 0..MaxWords}

(***************************************************************************)
(* The adversarial patterns.  A pattern is a sequence of elements: a word  *)
(* that must be present, an optional word (a `(?:word\s+)?` group), or a   *)
(* trailing \s+, which asks for a following word.                          *)
(***************************************************************************)
Word(S) == [kind |-> "word", words |-> S]
Optional(S) == [kind |-> "optional", words |-> S]
Space == [kind |-> "space", words |-> {}]

Instructions == {"instruction", "instructions"}
Rules == {"rule", "rules"}

adversarial_patterns ==
    << <<Word({"ignore"}), Optional({"all"}), Optional({"previous", "above"}),
         Word(Instructions)>>,
       <<Word({"ignore"}), Optional({"the"}), Optional({"previous"}),
         Optional({"all"}), Word(Instructions)>>,
       <<Word({"disregard"}), Optional({"all"}), Optional({"previous", "your"}),
         Word(Instructions \cup Rules)>>,
       <<Word({"forget"}), Word({"everything", "all"} \cup Instructions)>>,
       <<Word({"you"}), Word({"are"}), Word({"now"}), Word({"a", "an"}), Space>>,
       <<Word({"new"}), Word({"instruction:", "instructions:"})>>,
       <<Word({"system"}), Word({"prompt:"})>>,
       <<Word({"reveal"}), Word({"your"}),
         Word({"prompt", "system"} \cup Instructions)>>,
       <<Word({"what"}), Word({"is", "are"}), Word({"your"}),
         Word({"prompt"} \cup Instructions \cup Rules)>>,
       <<Word({"prompt", "system"}), Word({"injection"})>>,
       <<Word({"jailbreak"})>> >>

\* a compile that drops the re.IGNORECASE flag
compile_case_sensitive(i, ignorecase) ==
    [pattern |-> i, elems |-> adversarial_patterns[i], ignorecase |-> FALSE]

\* re.compile(pattern, re.IGNORECASE); .pattern is the index in the list
compile(i, ignorecase) ==
    [pattern |-> i, elems |-> adversarial_patterns[i], ignorecase |-> ignorecase]

compiled_patterns ==
    [i \in 1..Len(adversarial_patterns) |-> compile(i, TRUE)]

fold(p, w) == IF p.ignorecase THEN lower(w) ELSE w

\* The position after the match of elements k.. of p that starts at word i of
\* text, or 0 when there is none.  Optional groups are greedy and backtrack.
RECURSIVE MatchEnd(_, _, _, _)
MatchEnd(p, k, text, i) ==
    IF k > Len(p.elems) THEN i
    ELSE LET e == p.elems[k]
             here == i <= Len(text) /\ fold(p, text[i]) \in e.words
             taken == IF here THEN MatchEnd(p, k + 1, text, i + 1) ELSE 0
         IN  CASE e.kind = "word" -> taken
               [] e.kind = "optional" ->
                    IF taken # 0 THEN taken ELSE MatchEnd(p, k + 1, text, i)
               [] e.kind = "space" ->
                    IF i <= Len(text) THEN MatchEnd(p, k + 1, text, i) ELSE 0

\* pattern.findall(prompt): the non-overlapping matches, left to right
RECURSIVE FindFrom(_, _, _)
FindFrom(p, text, i) ==
    IF i > Len(text) THEN << >>
    ELSE LET e == MatchEnd(p, 1, text, i)
         IN  IF e = 0 THEN FindFrom(p, text, i + 1)
             ELSE <<SubSeq(text, i, e - 1)>>
                  \o FindFrom(p, text, IF e > i THEN e ELSE i + 1)

findall(p, text) == FindFrom(p, text, 1)

(***************************************************************************)
(* The moderation endpoint: what client.moderations.create may do.         *)
(***************************************************************************)
PrivateAttrs == {"_private"}

CategoryAttrs ==
    {[a \in {"violence", "self_harm", "_private"} |-> a = "violence" /\ v] :
        v \in BOOLEAN}

\* the categories object of a moderation result, in the shapes the code probes:
\* one with a __dict__, one with only model_dump (which may raise), and one
\* with neither
CategoryShapes == {"dict", "model_dump", "model_dump_raises", "plain"}

Categories ==
    {c \in [shape : CategoryShapes, attrs : CategoryAttrs] :
        c.shape = "model_dump_raises" => c.attrs["violence"] = FALSE}

NoCategories ==
    [shape |-> "plain",
     attrs |-> [a \in {"violence", "self_harm", "_private"} |-> FALSE]]

\* moderation.results[0]
ModerationResults ==
    {[flagged |-> f, has_categories |-> TRUE, categories |-> c] :
        f \in BOOLEAN, c \in Categories}
    \cup {[flagged |-> f, has_categories |-> FALSE, categories |-> NoCategories] :
            f \in BOOLEAN}

NoResults == << >>

ModerationOutcomes ==
    {[raises |-> TRUE, error |-> "moderation unavailable",
      has_results |-> FALSE, results |-> NoResults]}
    \cup {[raises |-> FALSE, error |-> "", has_results |-> h, results |-> NoResults] :
            h \in BOOLEAN}
    \cup {[raises |-> FALSE, error |-> "", has_results |-> TRUE, results |-> <<r>>] :
            r \in ModerationResults}

NoModeration ==
    [raises |-> FALSE, error |-> "", has_results |-> FALSE, results |-> NoResults]

(***************************************************************************)
(* SafetyChecker.check_prompt                                              *)
(***************************************************************************)
Absent == "<absent>"

\* moderation_results = None
None == [present |-> FALSE, flagged |-> FALSE, categories |-> << >>]

new_result ==
    [is_safe |-> TRUE, flagged_by |-> << >>, moderation_results |-> None,
     heuristic_matches |-> << >>, moderation_error |-> Absent]

category_names ==
    <<"hate", "hate/threatening", "harassment", "harassment/threatening",
      "self-harm", "self-harm/intent", "self-harm/instructions", "sexual",
      "sexual/minors", "violence", "violence/graphic">>

\* cat.replace('/', '_').replace('-', '_')
attr_name(cat) ==
    CASE cat = "hate/threatening" -> "hate_threatening"
      [] cat = "harassment/threatening" -> "harassment_threatening"
      [] cat = "self-harm" -> "self_harm"
      [] cat = "self-harm/intent" -> "self_harm_intent"
      [] cat = "self-harm/instructions" -> "self_harm_instructions"
      [] cat = "sexual/minors" -> "sexual_minors"
      [] cat = "violence/graphic" -> "violence_graphic"
      [] OTHER -> cat

Range(s) == {s[i] : i \in DOMAIN s}

\* lines 70-91: the categories dict, or the exception the extraction raised
extract_categories(r) ==
    IF ~r.has_categories THEN [raised |-> FALSE, dict |-> << >>]
    ELSE LET c == r.categories
             public == [a \in DOMAIN c.attrs \ PrivateAttrs |-> c.attrs[a]]
         IN  CASE c.shape = "dict" -> [raised |-> FALSE, dict |-> public]
               [] c.shape = "model_dump" -> [raised |-> FALSE, dict |-> public]
               [] c.shape = "model_dump_raises" -> [raised |-> TRUE, dict |-> << >>]
               [] c.shape = "plain" ->
                    [raised |-> FALSE,
                     dict |-> [cat \in Range(category_names) |->
                                 IF attr_name(cat) \in DOMAIN c.attrs
                                 THEN c.attrs[attr_name(cat)] ELSE FALSE]]

\* lines 93-95
flag_moderation(res, flagged) ==
    IF flagged
    THEN [res EXCEPT !.is_safe = FALSE,
                     !.flagged_by = Append(@, "openai_moderation")]
    ELSE res

\* a moderation half that fails closed: an endpoint failure marks the text unsafe
moderation_check_fail_closed(res, m) ==
    IF m.raises
    THEN [res EXCEPT !.moderation_error = m.error, !.is_safe = FALSE,
                     !.flagged_by = Append(@, "openai_moderation")]
    ELSE res

\* lines 56-99: the moderation half of check_prompt
moderation_check(res, m) ==
    IF m.raises THEN [res EXCEPT !.moderation_error = m.error]
    ELSE IF ~(m.has_results /\ Len(m.results) > 0) THEN res
    ELSE LET r == m.results[1]
             cats == extract_categories(r)
             noted == [res EXCEPT !.moderation_results =
                          [present |-> TRUE, flagged |-> r.flagged,
                           categories |-> << >>]]
         IN  IF cats.raised
             THEN [noted EXCEPT !.moderation_error = "model_dump failed"]
             ELSE flag_moderation(
                      [noted EXCEPT !.moderation_results.categories = cats.dict],
                      r.flagged)

\* lines 103-111: one turn of the loop over the compiled patterns
scan_pattern(res, p, text) ==
    LET matches == findall(p, text)
    IN  IF matches # << >>
        THEN [res EXCEPT
                !.is_safe = FALSE,
                !.flagged_by = IF "heuristic_patterns" \in Range(@) THEN @
                               ELSE Append(@, "heuristic_patterns"),
                !.heuristic_matches =
                    Append(@, [pattern |-> p.pattern, matches |-> matches])]
        ELSE res

\* lines 102-111: the loop, from the k-th compiled pattern on; .scanned counts
\* the patterns findall was run on
RECURSIVE scan_from(_, _, _)
scan_from(res, text, k) ==
    IF k > Len(compiled_patterns) THEN [result |-> res, scanned |-> k - 1]
    ELSE scan_from(scan_pattern(res, compiled_patterns[k], text), text, k + 1)

\* a scan that is given up when the moderation call has failed
heuristic_scan_unless_error(res, text) ==
    IF res.moderation_error # Absent THEN [result |-> res, scanned |-> 0]
    ELSE scan_from(res, text, 1)

\* lines 101-111: the heuristic half of check_prompt
heuristic_scan(res, text) == scan_from(res, text, 1)

\* lines 39-113 as a function of the text and of what the endpoint did
check_prompt(text, m) ==
    heuristic_scan(moderation_check(new_result, m), text).result

(***************************************************************************)
(* SafetyChecker.get_safe_response.  A message is the sequence of its      *)
(* words.                                                                  *)
(***************************************************************************)
NoMessage == << >>

\* lines 126-128
PolicyMessage ==
    <<"I", "cannot", "process", "this", "request", "as", "it", "contains",
      "content", "that", "violates", "OpenAI's", "usage", "policies.",
      "Please", "rephrase", "your", "question.">>

\* lines 130-132
InjectionMessage ==
    <<"I", "detected", "a", "potential", "prompt", "injection", "attempt.",
      "I'm", "designed", "to", "assist", "with", "legitimate", "questions.",
      "Please", "ask", "a", "genuine", "question.">>

\* line 133
GenericMessage ==
    <<"This", "prompt", "cannot", "be", "processed", "due", "to", "safety",
      "concerns.">>

\* a get_safe_response that looks for the heuristic tag first
get_safe_response_heuristic_first(verdict) ==
    IF "heuristic_patterns" \in Range(verdict.flagged_by) THEN InjectionMessage
    ELSE IF "openai_moderation" \in Range(verdict.flagged_by) THEN PolicyMessage
    ELSE GenericMessage

\* lines 115-133
get_safe_response(verdict) ==
    IF "openai_moderation" \in Range(verdict.flagged_by) THEN PolicyMessage
    ELSE IF "heuristic_patterns" \in Range(verdict.flagged_by) THEN InjectionMessage
    ELSE GenericMessage

(***************************************************************************)
(* The completion endpoint: what client.chat.completions.create may do.    *)
(***************************************************************************)
\* response.usage: the endpoint reports the total itself
UsageReports ==
    {[prompt_tokens |-> 100, completion_tokens |-> 50, total_tokens |-> 150],
     [prompt_tokens |-> 1, completion_tokens |-> 1, total_tokens |-> 2],
     [prompt_tokens |-> 1, completion_tokens |-> 0, total_tokens |-> 2]}

NullContent == "<None>"

\* response.choices[0].message.content
Contents == {"{\"answer\": 42}", "[1, 2]", "I cannot answer that", NullContent}

NoUsage == [prompt_tokens |-> 0, completion_tokens |-> 0, total_tokens |-> 0]

CompletionOutcomes ==
    {[raises |-> TRUE, error |-> e, usage |-> NoUsage, content |-> NullContent] :
        e \in {"Connection error.", "Rate limit exceeded"}}
    \cup {[raises |-> FALSE, error |-> "", usage |-> u, content |-> c] :
            u \in UsageReports, c \in Contents}

NoResponse ==
    [raises |-> FALSE, error |-> "", usage |-> NoUsage, content |-> NullContent]

\* json.loads(response_content)
json_loads(s) ==
    CASE s = NullContent ->
           [raised |-> "TypeError", value |-> << >>,
            message |-> "the JSON object must be str, bytes or bytearray, not NoneType"]
      [] s = "{\"answer\": 42}" ->
           [raised |-> "", value |-> <<"answer", 42>>, message |-> ""]
      [] s = "[1, 2]" ->
           [raised |-> "", value |-> <<"1", 2>>, message |-> ""]
      [] OTHER ->
           [raised |-> "JSONDecodeError", value |-> << >>,
            message |-> "Expecting value: line 1 column 1 (char 0)"]

(***************************************************************************)
(* TextUtility: template, pricing, cost.                                   *)
(***************************************************************************)
Placeholder == "{question}"

\* _get_default_prompt: the instructions, then "User question: {question}"
default_prompt == <<"Analyze", "JSON", "User", "question:", Placeholder>>

\* a replace that substitutes the first occurrence only
replace_first(template, old, new) ==
    IF \A i \in 1..Len(template) : template[i] # old THEN template
    ELSE LET i == CHOOSE k \in 1..Len(template) :
                      /\ template[k] = old
                      /\ \A j \in 1..(k - 1) : template[j] # old
         IN  SubSeq(template, 1, i - 1) \o new
             \o SubSeq(template, i + 1, Len(template))

\* str.replace(old, new) on a sequence of words: one pass, left to right; the
\* inserted words are not scanned again
RECURSIVE replace(_, _, _)
replace(template, old, new) ==
    IF template = << >> THEN << >>
    ELSE (IF Head(template) = old THEN new ELSE <<Head(template)>>)
         \o replace(Tail(template), old, new)

Models == {"gpt-3.5-turbo", "gpt-4", "gpt-4-turbo", "my-finetune"}

default_model == "gpt-3.5-turbo"

\* self.pricing: dollars per 1K tokens, here in units of 1e-7 dollar per token
\* (0.0015 $/1K = 15e-7 $ per token)
pricing ==
    [m \in {"gpt-3.5-turbo", "gpt-4", "gpt-4-turbo"} |->
        CASE m = "gpt-3.5-turbo" -> [prompt |-> 15, completion |-> 20]
          [] m = "gpt-4" -> [prompt |-> 300, completion |-> 600]
          [] m = "gpt-4-turbo" -> [prompt |-> 100, completion |-> 300]]

\* a _calculate_cost that prices an unrecognised model at the gpt-4 rates
_calculate_cost_fallback_gpt4(mdl, prompt_tokens, completion_tokens) ==
    LET model_key == IF mdl \notin DOMAIN pricing THEN "gpt-4" ELSE mdl
        prompt_cost == prompt_tokens * pricing[model_key].prompt
        completion_cost == completion_tokens * pricing[model_key].completion
    IN  prompt_cost + completion_cost

\* _calculate_cost, in units of 1e-7 dollar
_calculate_cost(mdl, prompt_tokens, completion_tokens) ==
    LET model_key == IF mdl \notin DOMAIN pricing THEN "gpt-3.5-turbo" ELSE mdl
        prompt_cost == prompt_tokens * pricing[model_key].prompt
        completion_cost == completion_tokens * pricing[model_key].completion
    IN  prompt_cost + completion_cost

\* round(estimated_cost, 6): the values, in units of 1e-6 dollar, that rounding
\* a cost of `cost` units of 1e-7 dollar may give.  Off a tie it is the nearest
\* one; on a tie the binary floating-point value of the cost decides, and
\* either neighbour is possible.
round6(cost) ==
    LET down == cost \div 10
        rest == cost % 10
    IN  IF rest < 5 THEN {down}
        ELSE IF rest > 5 THEN {down + 1}
        ELSE {down, down + 1}

(***************************************************************************)
(* The metrics logs and TextUtility._log_metrics.                          *)
(***************************************************************************)
\* no process is writing the logs beside the one modelled by pc
NoWriters == << >>

CsvMissing == [exists |-> FALSE, rows |-> << >>]
JsonMissing == [exists |-> FALSE, valid |-> TRUE, data |-> << >>]

\* what the file system does to one _log_metrics call: every operation works,
\* or one of them fails (the exception it raises ends the call)
IoOutcomes ==
    {"ok", "csv_open_fails", "csv_write_fails", "json_read_fails",
     "json_open_fails", "json_write_fails"}

\* lines 182-191; the timestamp and the question preview are left out of the
\* record
entry_of(metrics, mdl) ==
    [tokens_prompt |-> metrics.tokens_prompt,
     tokens_completion |-> metrics.tokens_completion,
     total_tokens |-> metrics.total_tokens,
     latency_ms |-> metrics.latency_ms,
     estimated_cost |-> metrics.estimated_cost,
     model |-> mdl]

HeaderRow == [kind |-> "header", entry |-> << >>]
DataRow(entry) == [kind |-> "data", entry |-> entry]

\* a CSV append that writes the header on every call
log_csv_header_always(csv, entry, io) ==
    CASE io = "csv_open_fails" -> [file |-> csv, raised |-> "OSError"]
      [] io = "csv_write_fails" ->
           [file |-> [csv EXCEPT !.exists = TRUE], raised |-> "OSError"]
      [] OTHER ->
           [file |-> [exists |-> TRUE,
                      rows |-> csv.rows \o <<HeaderRow, DataRow(entry)>>],
            raised |-> ""]

\* lines 193-200: append to the CSV, the header first when the file is new
log_csv(csv, entry, io) ==
    CASE io = "csv_open_fails" -> [file |-> csv, raised |-> "OSError"]
      [] io = "csv_write_fails" ->
           [file |-> [csv EXCEPT !.exists = TRUE], raised |-> "OSError"]
      [] OTHER ->
           [file |-> [exists |-> TRUE,
                      rows |-> csv.rows
                               \o (IF ~csv.exists THEN <<HeaderRow>> ELSE << >>)
                               \o <<DataRow(entry)>>],
            raised |-> ""]

\* a JSON log that is rewritten with the new record alone
log_json_overwrite(json, entry, io) ==
    IF json.exists /\ io = "json_read_fails" THEN [file |-> json, raised |-> "OSError"]
    ELSE IF json.exists /\ ~json.valid
    THEN [file |-> json, raised |-> "JSONDecodeError"]
    ELSE CASE io = "json_open_fails" -> [file |-> json, raised |-> "OSError"]
           [] io = "json_write_fails" ->
                [file |-> [exists |-> TRUE, valid |-> FALSE, data |-> << >>],
                 raised |-> "OSError"]
           [] OTHER ->
                [file |-> [exists |-> TRUE, valid |-> TRUE, data |-> <<entry>>],
                 raised |-> ""]

\* lines 202-212: read the array, append, rewrite the file
log_json(json, entry, io) ==
    IF json.exists /\ io = "json_read_fails" THEN [file |-> json, raised |-> "OSError"]
    ELSE IF json.exists /\ ~json.valid
    THEN [file |-> json, raised |-> "JSONDecodeError"]
    ELSE LET data == IF json.exists THEN json.data ELSE << >>
         IN  CASE io = "json_open_fails" -> [file |-> json, raised |-> "OSError"]
               [] io = "json_write_fails" ->
                    [file |-> [exists |-> TRUE, valid |-> FALSE, data |-> << >>],
                     raised |-> "OSError"]
               [] OTHER ->
                    [file |-> [exists |-> TRUE, valid |-> TRUE,
                               data |-> Append(data, entry)],
                     raised |-> ""]

\* lines 173-212
_log_metrics(csv, json, metrics, mdl, io) ==
    LET entry == entry_of(metrics, mdl)
        c == log_csv(csv, entry, io)
        j == log_json(json, entry, io)
    IN  IF c.raised # ""
        THEN [csv |-> c.file, json |-> json, raised |-> c.raised]
        ELSE [csv |-> c.file, json |-> j.file, raised |-> j.raised]

(***************************************************************************)
(* TextUtility.process_query                                               *)
(***************************************************************************)
\* the questions the pipeline is run on
Questions ==
    {<<"weather">>, <<"JailBreak">>, <<"IGNORE", "all", "instructions">>}

NoResult == [status |-> "none"]

Terminal == {"success", "rejected", "error"}

\* a rejection that reports the tokens of a call that was never made
rejected_result_with_usage(verdict, now, start) ==
    [status |-> "rejected",
     reason |-> "Safety check failed",
     safety_analysis |-> verdict,
     timestamp |-> now,
     metrics |-> [tokens_prompt |-> Len(verdict.flagged_by), tokens_completion |-> 0,
                  total_tokens |-> Len(verdict.flagged_by), latency_ms |-> now - start,
                  estimated_cost |-> 0]]

\* lines 98-110
rejected_result(verdict, now, start) ==
    [status |-> "rejected",
     reason |-> "Safety check failed",
     safety_analysis |-> verdict,
     timestamp |-> now,
     metrics |-> [tokens_prompt |-> 0, tokens_completion |-> 0,
                  total_tokens |-> 0, latency_ms |-> now - start,
                  estimated_cost |-> 0]]

\* lines 141-153
success_result(parsed, mdl, usage, latency, cost, now) ==
    [status |-> "success",
     response |-> parsed,
     timestamp |-> now,
     model |-> mdl,
     metrics |-> [tokens_prompt |-> usage.prompt_tokens,
                  tokens_completion |-> usage.completion_tokens,
                  total_tokens |-> usage.total_tokens,
                  latency_ms |-> latency,
                  estimated_cost |-> cost]]

\* one except clause for every failure, with the parse-failure message
error_result_prefixed(raised, message, now) ==
    [status |-> "error",
     error |-> <<"Failed to parse JSON response: ", message>>,
     timestamp |-> now]

\* lines 160-171: the two except clauses; a message is a sequence of parts
error_result(raised, message, now) ==
    [status |-> "error",
     error |-> IF raised = "JSONDecodeError"
               THEN <<"Failed to parse JSON response: ", message>>
               ELSE <<message>>,
     timestamp |-> now]

\* str(e) of an exception _log_metrics raised
log_error_message(raised) ==
    IF raised = "JSONDecodeError" THEN "Expecting value: line 1 column 1 (char 0)"
    ELSE "[Errno 28] No space left on device"

\* a gate that lets every verdict through
gate_open(verdict) == "calling"

\* a gate that reports an unsafe verdict as an error
gate_error(verdict) == IF ~verdict.is_safe THEN "error" ELSE "calling"

\* line 97: where process_query goes once check_prompt has returned
gate(verdict) == IF ~verdict.is_safe THEN "rejected" ELSE "calling"

Init ==
    /\ pc = "idle"
    /\ question = << >>
    /\ check_safety = TRUE
    /\ moderation = NoModeration
    /\ safety_result = new_result
    /\ moderation_calls = 0
    /\ patterns_scanned = 0
    /\ completion_calls = 0
    /\ prompt = << >>
    /\ response = NoResponse
    /\ result = NoResult
    /\ clock = 0
    /\ start_time = 0
    /\ csv_file = CsvMissing
    /\ json_file = JsonMissing
    /\ csv_before = CsvMissing
    /\ json_before = JsonMissing
    /\ calls = 0
    /\ successes = 0
    /\ model = default_model
    /\ prompt_template = default_prompt
    /\ safe_response = NoMessage
    /\ writers = NoWriters

\* process_query is called: line 92
Begin ==
    /\ pc \in {"idle"} \cup Terminal
    /\ calls < MaxCalls
    /\ \E q \in Questions, cs \in BOOLEAN :
          /\ question' = q
          /\ check_safety' = cs
    /\ pc' = "init"
    /\ calls' = calls + 1
    /\ start_time' = clock
    /\ moderation' = NoModeration
    /\ safety_result' = new_result
    /\ moderation_calls' = 0
    /\ patterns_scanned' = 0
    /\ completion_calls' = 0
    /\ prompt' = << >>
    /\ response' = NoResponse
    /\ result' = NoResult
    /\ csv_before' = csv_file
    /\ json_before' = json_file
    /\ UNCHANGED <<clock, csv_file, json_file, successes>>
    /\ UNCHANGED fixed_vars

\* a moderation step that calls the endpoint a second time before it goes on
Moderate_retry ==
    /\ pc = "init"
    /\ check_safety
    /\ \E m \in ModerationOutcomes :
          /\ moderation' = m
          /\ safety_result' = moderation_check(new_result, m)
    /\ moderation_calls' = moderation_calls + 2
    /\ pc' = "scan"
    /\ UNCHANGED <<question, check_safety, patterns_scanned, safe_response>>
    /\ UNCHANGED pipeline_vars

\* check_prompt, lines 49-99: the moderation endpoint is called and answers
Moderate ==
    /\ pc = "init"
    /\ check_safety
    /\ \E m \in ModerationOutcomes :
          /\ moderation' = m
          /\ safety_result' = moderation_check(new_result, m)
    /\ moderation_calls' = moderation_calls + 1
    /\ pc' = "scan"
    /\ UNCHANGED <<question, check_safety, patterns_scanned, safe_response>>
    /\ UNCHANGED pipeline_vars

\* check_prompt, lines 101-113: the patterns are run and the verdict returned
Scan ==
    /\ pc = "scan"
    /\ LET s == heuristic_scan(safety_result, question)
       IN  /\ safety_result' = s.result
           /\ patterns_scanned' = s.scanned
    /\ pc' = "checked"
    /\ UNCHANGED <<question, check_safety, moderation, moderation_calls,
                   safe_response>>
    /\ UNCHANGED pipeline_vars

\* lines 97-113: reject, or build the prompt and call the completion endpoint.
\* On the way to the endpoint the verdict is not read again and is dropped.
Gate ==
    /\ pc = "checked"
    /\ pc' = gate(safety_result)
    /\ IF pc' = "rejected"
       THEN /\ result' = rejected_result(safety_result, clock, start_time)
            /\ UNCHANGED <<prompt, moderation, safety_result>>
       ELSE /\ prompt' = replace(prompt_template, Placeholder, question)
            /\ moderation' = NoModeration
            /\ safety_result' = new_result
            /\ UNCHANGED result
    /\ UNCHANGED <<question, check_safety, moderation_calls, patterns_scanned,
                   completion_calls, response, clock, start_time, csv_file,
                   json_file, csv_before, json_before, calls, successes>>
    /\ UNCHANGED fixed_vars

\* a pipeline that runs the patterns although check_safety is False
SkipSafety_scans ==
    /\ pc = "init"
    /\ ~check_safety
    /\ pc' = "scan"
    /\ UNCHANGED <<question, check_safety, moderation, safety_result,
                   moderation_calls, patterns_scanned, completion_calls, prompt,
                   response, result, clock, start_time, csv_file, json_file,
                   csv_before, json_before, calls, successes>>
    /\ UNCHANGED fixed_vars

\* lines 95, 112-113 with check_safety = False
SkipSafety ==
    /\ pc = "init"
    /\ ~check_safety
    /\ prompt' = replace(prompt_template, Placeholder, question)
    /\ pc' = "calling"
    /\ UNCHANGED <<question, check_safety, moderation, safety_result,
                   moderation_calls, patterns_scanned, completion_calls,
                   response, result, clock, start_time, csv_file, json_file,
                   csv_before, json_before, calls, successes>>
    /\ UNCHANGED fixed_vars

\* a completion step that logs the metrics before it parses the answer
completed_logs_first(r, io, rounded, now, start, csv, json) ==
    LET latency_ms == now - start
        parsed == json_loads(r.content)
        res == success_result(parsed.value, model, r.usage, latency_ms,
                              rounded, now)
        logged == _log_metrics(csv, json, res.metrics, model, io)
    IN  IF logged.raised # ""
        THEN [result |-> error_result(logged.raised,
                                      log_error_message(logged.raised), now),
              csv |-> logged.csv, json |-> logged.json]
        ELSE IF parsed.raised # ""
        THEN [result |-> error_result(parsed.raised, parsed.message, now),
              csv |-> logged.csv, json |-> logged.json]
        ELSE [result |-> res, csv |-> logged.csv, json |-> logged.json]

\* lines 126-158: the endpoint has answered with r; io is what the file system
\* does to _log_metrics.  The result returned and the two logs afterwards.
completed(r, io, rounded, now, start, csv, json) ==
    LET latency_ms == now - start
        parsed == json_loads(r.content)
        res == success_result(parsed.value, model, r.usage, latency_ms,
                              rounded, now)
        logged == _log_metrics(csv, json, res.metrics, model, io)
    IN  IF parsed.raised # ""
        THEN [result |-> error_result(parsed.raised, parsed.message, now),
              csv |-> csv, json |-> json]
        ELSE IF logged.raised # ""
        THEN [result |-> error_result(logged.raised,
                                      log_error_message(logged.raised), now),
              csv |-> logged.csv, json |-> logged.json]
        ELSE [result |-> res, csv |-> logged.csv, json |-> logged.json]

\* lines 115-171: the completion endpoint fails, or it answers, the answer is
\* parsed, the metrics are logged, and the result is returned
Complete ==
    /\ pc = "calling"
    /\ completion_calls' = completion_calls + 1
    /\ \E r \in CompletionOutcomes :
          /\ response' = r
          /\ IF r.raises
             THEN /\ result' = error_result("Exception", r.error, clock)
                  /\ UNCHANGED <<csv_file, json_file>>
             ELSE \E io \in IoOutcomes :
                  \E rounded \in round6(_calculate_cost(model,
                                            r.usage.prompt_tokens,
                                            r.usage.completion_tokens)) :
                     LET done == completed(r, io, rounded, clock, start_time,
                                           csv_file, json_file)
                     IN  /\ result' = done.result
                         /\ csv_file' = done.csv
                         /\ json_file' = done.json
    /\ pc' = result'.status
    /\ successes' = IF pc' = "success" THEN successes + 1 ELSE successes
    /\ UNCHANGED <<question, check_safety, moderation, safety_result,
                   moderation_calls, patterns_scanned, prompt, clock, start_time,
                   csv_before, json_before, calls>>
    /\ UNCHANGED fixed_vars

\* time passes while an endpoint is being waited for
Tick ==
    /\ pc \in {"init", "calling"}
    /\ clock < MaxClock
    /\ clock' = clock + 1
    /\ UNCHANGED <<pc, question, check_safety, moderation, safety_result,
                   moderation_calls, patterns_scanned, completion_calls, prompt,
                   response, result, start_time, csv_file, json_file,
                   csv_before, json_before, calls, successes>>
    /\ UNCHANGED fixed_vars

Next == Begin \/ Moderate \/ Scan \/ Gate \/ SkipSafety \/ Complete \/ Tick

Spec == Init /\ [][Next]_vars

(***************************************************************************)
(* check_prompt on its own, called on any text.                            *)
(***************************************************************************)
\* check_prompt(prompt) is called: lines 49-54
Check ==
    /\ pc = "idle"
    /\ \E text \in Texts : question' = text
    /\ check_safety' = TRUE
    /\ moderation' = NoModeration
    /\ safety_result' = new_result
    /\ moderation_calls' = 0
    /\ patterns_scanned' = 0
    /\ pc' = "init"
    /\ UNCHANGED safe_response
    /\ UNCHANGED pipeline_vars

\* line 113: the verdict has been handed to the caller
Return ==
    /\ pc = "checked"
    /\ pc' = "idle"
    /\ question' = << >>
    /\ moderation' = NoModeration
    /\ safety_result' = new_result
    /\ moderation_calls' = 0
    /\ patterns_scanned' = 0
    /\ safe_response' = NoMessage
    /\ UNCHANGED check_safety
    /\ UNCHANGED pipeline_vars

\* get_safe_response(safety_result) is called on the verdict: lines 115-133
Respond ==
    /\ pc = "checked"
    /\ safe_response = NoMessage
    /\ safe_response' = get_safe_response(safety_result)
    /\ UNCHANGED <<pc, question, check_safety, moderation, safety_result,
                   moderation_calls, patterns_scanned>>
    /\ UNCHANGED pipeline_vars

GateNext == Check \/ Moderate \/ Scan \/ Respond \/ Return

SpecGate == Init /\ [][GateNext]_vars

(***************************************************************************)
(* Properties of check_prompt (checked under SpecGate).                    *)
(***************************************************************************)
\* some adversarial pattern matches the text
AnyPatternMatches(text) ==
    \E i \in DOMAIN compiled_patterns : findall(compiled_patterns[i], text) # << >>

\* the endpoint answered with a first result whose flagged is true
ModerationFlagged(m) ==
    ~m.raises /\ m.has_results /\ Len(m.results) > 0 /\ m.results[1].flagged

\* the endpoint answered, with no result or with a first result not flagged
ModerationClear(m) ==
    ~m.raises /\ (m.has_results /\ Len(m.results) > 0 => ~m.results[1].flagged)

Count(seq, x) == Cardinality({i \in DOMAIN seq : seq[i] = x})

\* C1: whatever the text and the moderation response, the verdict is unsafe
\* whenever a pattern matches the text or the moderation result received is
\* flagged.
C1_UnsafeIfMatchedOrFlagged ==
    pc = "checked" =>
        (AnyPatternMatches(question) \/ ModerationFlagged(moderation)
            => ~safety_result.is_safe)

\* C2: a text that matches no pattern gets is_safe = true and an empty
\* flagged_by when the moderation call reports not-flagged, returns no results,
\* or fails.
C2_SafeWhenNothingTriggers ==
    pc = "checked" /\ ~AnyPatternMatches(question)
        /\ (moderation.raises \/ ModerationClear(moderation))
        => safety_result.is_safe /\ safety_result.flagged_by = << >>

C2_Witness ==
    /\ pc = "checked"
    /\ question = <<"weather", "forget">>
    /\ moderation.raises
    /\ safety_result.is_safe
    /\ safety_result.flagged_by = << >>

\* C3: when the moderation endpoint call fails, a verdict is still returned; it
\* has no moderation_results and records moderation_error; every pattern has
\* been scanned; and is_safe is decided by the pattern matches alone.
C3_ModerationFailureDegrades ==
    pc = "checked" /\ moderation.raises
        => /\ safety_result.moderation_results = None
           /\ safety_result.moderation_error = moderation.error
           /\ safety_result.moderation_error # Absent
           /\ patterns_scanned = Len(adversarial_patterns)
           /\ safety_result.is_safe = ~AnyPatternMatches(question)
           /\ "openai_moderation" \notin Range(safety_result.flagged_by)

C3_Witness ==
    /\ pc = "checked"
    /\ moderation.raises
    /\ question = <<"IGNORE", "instructions">>
    /\ ~safety_result.is_safe
    /\ Len(safety_result.heuristic_matches) = 2

\* C4: both sources are evaluated on every call, and flagged_by holds the tag
\* of every source that triggered (both when the moderation result is flagged
\* and a pattern matches), each tag at most once.
C4_EverySourceTagged ==
    pc = "checked" =>
        /\ moderation_calls = 1
        /\ patterns_scanned = Len(adversarial_patterns)
        /\ ModerationFlagged(moderation)
              => "openai_moderation" \in Range(safety_result.flagged_by)
        /\ AnyPatternMatches(question)
              => "heuristic_patterns" \in Range(safety_result.flagged_by)
        /\ Count(safety_result.flagged_by, "openai_moderation") <= 1
        /\ Count(safety_result.flagged_by, "heuristic_patterns") <= 1

(***************************************************************************)
(* Properties of process_query (checked under Spec).                       *)
(***************************************************************************)
\* C5: with the safety check enabled and an unsafe verdict, the call ends in
\* status rejected with that verdict attached as safety_analysis, and the
\* completion endpoint is not called in that invocation.
C5_UnsafeIsRejected ==
    /\ [][pc = "checked" /\ ~safety_result.is_safe
            => /\ pc' = "rejected"
               /\ result'.status = "rejected"
               /\ result'.safety_analysis = safety_result
               /\ completion_calls' = 0]_vars
    /\ [](pc = "rejected"
            => /\ check_safety
               /\ result.status = "rejected"
               /\ result.safety_analysis = safety_result
               /\ ~result.safety_analysis.is_safe
               /\ completion_calls = 0
               /\ response = NoResponse)

C5_Witness ==
    /\ pc = "rejected"
    /\ question = <<"JailBreak">>
    /\ result.safety_analysis.flagged_by = <<"heuristic_patterns">>
    /\ completion_calls = 0

ParseFailed ==
    /\ completion_calls = 1
    /\ pc \in Terminal
    /\ ~response.raises
    /\ json_loads(response.content).raised # ""

\* C7: when the completion call succeeds but its content cannot be parsed as
\* JSON, the result has status error, its message is that of the parse
\* failure (with the prefix "Failed to parse JSON response: " when the content
\* is text that is not JSON), and neither log is written by the call.
C7_ParseFailureIsError ==
    ParseFailed
        => /\ result.status = "error"
           /\ result.error[Len(result.error)] = json_loads(response.content).message
           /\ json_loads(response.content).raised = "JSONDecodeError"
                 => result.error[1] = "Failed to parse JSON response: "
           /\ csv_file = csv_before
           /\ json_file = json_before

C7_Witness ==
    /\ ParseFailed
    /\ response.content = "I cannot answer that"
    /\ result.error = <<"Failed to parse JSON response: ",
                        "Expecting value: line 1 column 1 (char 0)">>
    /\ json_before.exists

\* C8: when the completion call itself fails, the result has status error, its
\* message is the raw failure message, and neither log is written by the call.
C8_CallFailureIsError ==
    completion_calls = 1 /\ pc \in Terminal /\ response.raises
        => /\ result.status = "error"
           /\ result.error = <<response.error>>
           /\ csv_file = csv_before
           /\ json_file = json_before

C8_Witness ==
    /\ pc = "error"
    /\ response.raises
    /\ result.error = <<"Rate limit exceeded">>
    /\ csv_before.exists

\* the state of the spec's state machine that a position belongs to
Phase(p) ==
    CASE p \in {"init", "scan", "checked"} -> "INIT"
      [] p = "calling" -> "CALLING"
      [] p = "success" -> "SUCCESS"
      [] p = "rejected" -> "REJECTED"
      [] p = "error" -> "ERROR"
      [] OTHER -> "IDLE"

Transitions ==
    {<<"INIT", "INIT">>, <<"INIT", "REJECTED">>, <<"INIT", "CALLING">>,
     <<"CALLING", "CALLING">>, <<"CALLING", "SUCCESS">>, <<"CALLING", "ERROR">>}

ResultFields(status) ==
    CASE status = "success" -> {"status", "response", "timestamp", "model", "metrics"}
      [] status = "rejected" ->
           {"status", "reason", "safety_analysis", "timestamp", "metrics"}
      [] status = "error" -> {"status", "error", "timestamp"}
      [] OTHER -> {"status"}

\* C9: an invocation goes INIT -> {REJECTED | CALLING} -> {SUCCESS | ERROR}; it
\* ends with exactly one of the results success, rejected and error; and once
\* it has ended, neither its outcome nor its result changes.
C9_StateMachine ==
    /\ [][IF calls' = calls
          THEN /\ pc' # pc => <<Phase(pc), Phase(pc')>> \in Transitions
               /\ pc \in Terminal => pc' = pc /\ result' = result
          ELSE /\ calls' = calls + 1
               /\ pc \in {"idle"} \cup Terminal
               /\ pc' = "init"]_vars
    /\ [](/\ pc \in Terminal <=> result.status \in Terminal
          /\ pc \in Terminal => result.status = pc
          /\ DOMAIN result = ResultFields(result.status))

C9_Witness ==
    /\ calls = 2
    /\ pc = "success"
    /\ successes = 1

\* C10: an invocation adds one record to each log when it ends in success, and
\* leaves both logs as they were when it ends in rejected or error.
C10_OneRecordPerSuccess ==
    pc \in Terminal =>
        IF pc = "success"
        THEN /\ json_file.exists /\ json_file.valid
             /\ Len(json_file.data) = Len(json_before.data) + 1
             /\ SubSeq(json_file.data, 1, Len(json_before.data)) = json_before.data
             /\ csv_file.exists
             /\ Len(csv_file.rows) =
                   Len(csv_before.rows) + (IF csv_before.exists THEN 1 ELSE 2)
        ELSE /\ csv_file.rows = csv_before.rows
             /\ json_file.valid = json_before.valid
             /\ json_file.data = json_before.data

(***************************************************************************)
(* Properties of the metrics, the prompt and the logs.                     *)
(***************************************************************************)
\* C11: in every success result the total token count is the sum of the prompt
\* and the completion token counts, whatever usage report the endpoint returned.
C11_TotalIsSum ==
    result.status = "success" =>
        result.metrics.total_tokens =
            result.metrics.tokens_prompt + result.metrics.tokens_completion

(***************************************************************************)
(* The cost of one answered completion, for any configured model and any   *)
(* usage report: lines 127-153 on their own.                               *)
(***************************************************************************)
MaxTokens == 12    \* every token count up to this one is tried

\* the token counts tried: the small ones, and those of the repository's tests
TokenCounts == (0..MaxTokens) \cup {50, 100, 500, 1000}

\* a TextUtility configured with any model, whose completion endpoint has just
\* answered with any usage report
InitCost ==
    /\ pc = "calling"
    /\ model \in Models
    /\ \E p \in TokenCounts, c \in TokenCounts :
          response = [raises |-> FALSE, error |-> "",
                      usage |-> [prompt_tokens |-> p, completion_tokens |-> c,
                                 total_tokens |-> p + c],
                      content |-> "{\"answer\": 42}"]
    /\ question = <<"weather">>
    /\ check_safety = FALSE
    /\ moderation = NoModeration
    /\ safety_result = new_result
    /\ moderation_calls = 0
    /\ patterns_scanned = 0
    /\ completion_calls = 1
    /\ prompt = replace(default_prompt, Placeholder, question)
    /\ result = NoResult
    /\ clock = 0
    /\ start_time = 0
    /\ csv_file = CsvMissing
    /\ json_file = JsonMissing
    /\ csv_before = CsvMissing
    /\ json_before = JsonMissing
    /\ calls = 1
    /\ successes = 0
    /\ prompt_template = default_prompt
    /\ safe_response = NoMessage
    /\ writers = NoWriters

\* lines 127-153: the metrics are computed and the success result is built
Price ==
    /\ pc = "calling"
    /\ \E rounded \in round6(_calculate_cost(model, response.usage.prompt_tokens,
                                             response.usage.completion_tokens)) :
          result' = success_result(json_loads(response.content).value, model,
                                   response.usage, clock - start_time, rounded,
                                   clock)
    /\ pc' = "success"
    /\ successes' = successes + 1
    /\ UNCHANGED <<question, check_safety, moderation, safety_result,
                   moderation_calls, patterns_scanned, completion_calls, prompt,
                   response, clock, start_time, csv_file, json_file, csv_before,
                   json_before, calls>>
    /\ UNCHANGED fixed_vars

SpecCost == InitCost /\ [][Price]_vars

\* the rates the claim names for a model, in units of 1e-7 dollar per token
C12_Rates(mdl) ==
    IF mdl \in {"gpt-3.5-turbo", "gpt-4", "gpt-4-turbo"} THEN pricing[mdl]
    ELSE [prompt |-> 15, completion |-> 20]

\* C12: the estimated cost of a success result is prompt tokens times the prompt
\* rate plus completion tokens times the completion rate, rounded to six
\* decimal places (to the nearest 1e-6 dollar, either neighbour on a tie), at
\* the configured model's rates, or at the gpt-3.5-turbo rates for a model that
\* is not in the pricing table; 100 and 50 tokens at those rates cost 0.00025.
C12_CostFormula ==
    pc = "success" =>
        LET p == result.metrics.tokens_prompt
            c == result.metrics.tokens_completion
            exact == p * C12_Rates(model).prompt + c * C12_Rates(model).completion
            cost == result.metrics.estimated_cost
        IN  /\ 10 * cost - exact \in -5..5
            /\ exact % 10 # 5 => 10 * cost - exact \in -4..4
            /\ (p = 100 /\ c = 50 /\ model \in {"gpt-3.5-turbo", "my-finetune"})
                  => cost = 250

C12_Witness ==
    /\ pc = "success"
    /\ model = "my-finetune"
    /\ result.metrics.tokens_prompt = 100
    /\ result.metrics.tokens_completion = 50
    /\ result.metrics.estimated_cost = 250

(***************************************************************************)
(* Building the prompt from any template holding the placeholder and any   *)
(* question: line 113 on its own.                                          *)
(***************************************************************************)
MaxTemplateWords == 2   \* words in a prompt template other than the default

\* prompts/main_prompt.txt as _load_prompt_template may find it: the default
\* template, or any short text in which {question} stands as a word
Templates ==
    {default_prompt} \cup
    {t \in UNION {[1..n -> {"User", "question:", Placeholder}] :
                     n \in 1..MaxTemplateWords} :
        \E i \in 1..Len(t) : t[i] = Placeholder}

\* process_query(question, check_safety=False) has been called on a TextUtility
\* that loaded any such template
InitTemplate ==
    /\ pc = "init"
    /\ question \in Texts
    /\ prompt_template \in Templates
    /\ check_safety = FALSE
    /\ moderation = NoModeration
    /\ safety_result = new_result
    /\ moderation_calls = 0
    /\ patterns_scanned = 0
    /\ completion_calls = 0
    /\ prompt = << >>
    /\ response = NoResponse
    /\ result = NoResult
    /\ clock = 0
    /\ start_time = 0
    /\ csv_file = CsvMissing
    /\ json_file = JsonMissing
    /\ csv_before = CsvMissing
    /\ json_before = JsonMissing
    /\ calls = 1
    /\ successes = 0
    /\ model = default_model
    /\ safe_response = NoMessage
    /\ writers = NoWriters

SpecTemplate == InitTemplate /\ [][SkipSafety]_vars

\* the words of `part`, in order and side by side, occur in `text`
Contains(text, part) ==
    \E i \in 1..(Len(text) - Len(part) + 1) :
        SubSeq(text, i, i + Len(part) - 1) = part

\* C13 as stated: for every template holding the placeholder and every question,
\* the prompt built holds no placeholder any more and holds the question
\* verbatim.
C13_NoPlaceholderLeft ==
    pc = "calling" =>
        /\ ~Contains(prompt, <<Placeholder>>)
        /\ Contains(prompt, question)

\* C13 amended: the prompt built always holds the question verbatim; it holds a
\* placeholder exactly when the question itself holds one.
C13_QuestionInserted ==
    pc = "calling" =>
        /\ Contains(prompt, question)
        /\ Contains(prompt, <<Placeholder>>) <=> Contains(question, <<Placeholder>>)

C13_Witness ==
    /\ pc = "calling"
    /\ prompt_template = <<Placeholder, Placeholder>>
    /\ question = <<"IGNORE", "rules">>
    /\ prompt = <<"IGNORE", "rules", "IGNORE", "rules">>

(***************************************************************************)
(* Properties of the heuristic scan and of the safe response (checked      *)
(* under SpecGate).                                                        *)
(***************************************************************************)
\* the adversarial phrases that can be written with the words of Vocabulary,
\* in lower case, each with the patterns of the list it is a phrase of
C14_Phrases ==
    {[words |-> <<"ignore", "instructions">>, patterns |-> {1, 2}],
     [words |-> <<"ignore", "all", "instructions">>, patterns |-> {1, 2}],
     [words |-> <<"disregard", "instructions">>, patterns |-> {3}],
     [words |-> <<"disregard", "rules">>, patterns |-> {3}],
     [words |-> <<"disregard", "all", "instructions">>, patterns |-> {3}],
     [words |-> <<"disregard", "all", "rules">>, patterns |-> {3}],
     [words |-> <<"forget", "all">>, patterns |-> {4}],
     [words |-> <<"forget", "instructions">>, patterns |-> {4}],
     [words |-> <<"system", "injection">>, patterns |-> {10}],
     [words |-> <<"jailbreak">>, patterns |-> {11}]}

\* the patterns of which the text holds a phrase, in any letter casing
C14_Expected(text) ==
    UNION {ph.patterns :
              ph \in {q \in C14_Phrases :
                         Contains([i \in 1..Len(text) |-> lower(text[i])], q.words)}}

\* C14: for every text holding an adversarial phrase in any letter casing, and
\* whatever the moderation endpoint did, the verdict is unsafe, flagged_by holds
\* heuristic_patterns, and heuristic_matches holds one entry for each pattern
\* that matches, in the order of the pattern list.
C14_PhraseIsFlagged ==
    (pc = "checked" /\ C14_Expected(question) # {}) =>
        LET hm == safety_result.heuristic_matches
        IN  /\ ~safety_result.is_safe
            /\ "heuristic_patterns" \in Range(safety_result.flagged_by)
            /\ hm # << >>
            /\ {hm[i].pattern : i \in 1..Len(hm)} = C14_Expected(question)
            /\ \A i \in 1..Len(hm) : hm[i].matches # << >>
            /\ \A i, j \in 1..Len(hm) : i < j => hm[i].pattern < hm[j].pattern

C14_Witness ==
    /\ pc = "checked"
    /\ question = <<"IGNORE", "instructions">>
    /\ moderation.raises
    /\ Len(safety_result.heuristic_matches) = 2
    /\ safety_result.heuristic_matches[1].pattern = 1
    /\ safety_result.heuristic_matches[2].matches = <<question>>

(***************************************************************************)
(* Properties of the two logs written by one process (checked under Spec). *)
(***************************************************************************)
\* C15: a _log_metrics call that returns has rewritten the structured log as
\* the array it read, every record unchanged and in the same order, followed by
\* exactly one new record; from a missing file the result has one element.
C15_JsonAppendsOne ==
    pc = "success" =>
        /\ json_file.exists /\ json_file.valid
        /\ json_file.data =
              json_before.data \o <<entry_of(result.metrics, result.model)>>
        /\ ~json_before.exists => Len(json_file.data) = 1

C15_Witness ==
    /\ pc = "success"
    /\ json_before.exists
    /\ Len(json_before.data) = 1
    /\ Len(json_file.data) = 2

\* C16: after queries that all succeeded, made by one process from a missing
\* tabular log, the log is one header row, first, followed by one data row for
\* each query in the order of the appends; only the first write adds the header.
C16_OneHeaderThenRows ==
    (pc = "success" /\ successes = calls) =>
        LET rows == csv_file.rows
            n == Len(rows)
        IN  /\ n = successes + 1
            /\ rows[1] = HeaderRow
            /\ \A i \in 2..n : rows[i].kind = "data"
            /\ rows[n] = DataRow(entry_of(result.metrics, result.model))
            /\ SubSeq(rows, 1, n - 1) =
                  (IF csv_before.exists THEN csv_before.rows ELSE <<HeaderRow>>)
            /\ \A i \in 1..(n - 1) : rows[i + 1].entry = json_file.data[i]

C16_Witness ==
    /\ pc = "success"
    /\ successes = 2
    /\ calls = 2
    /\ Len(csv_file.rows) = 3
    /\ csv_file.rows[2].entry.latency_ms # csv_file.rows[3].entry.latency_ms

(***************************************************************************)
(* Several processes running _log_metrics side by side on the same two     *)
(* files (lines 193-212).  Each file operation of a call is one step; the  *)
(* steps of different processes interleave freely.                         *)
(***************************************************************************)
MaxWriters == 2    \* processes that log one successful query each

\* the records the processes log: those of the success results of Spec
WriterEntries ==
    UNION {{entry_of(success_result(<< >>, default_model, u, 0, cost, 0).metrics,
                     default_model) :
               cost \in round6(_calculate_cost(default_model, u.prompt_tokens,
                                               u.completion_tokens))} :
              u \in UsageReports}

\* a process that has not called _log_metrics yet.  alone: no other process
\* was inside _log_metrics during this one's call.  stale: another process has
\* written metrics.json since this one opened it for writing.
NewWriter(entry) ==
    [pc |-> "idle", file_exists |-> FALSE, data |-> << >>, entry |-> entry,
     alone |-> TRUE, stale |-> FALSE]

Active(w) == writers[w].pc \notin {"idle", "done", "failed"}

\* what the writers' steps leave alone
query_vars == <<pc, question, check_safety, moderation, safety_result,
                moderation_calls, patterns_scanned, completion_calls, prompt,
                response, result, clock, start_time, csv_before, json_before,
                calls, successes, model, prompt_template, safe_response>>

InitWriters ==
    /\ pc = "idle"
    /\ question = << >>
    /\ check_safety = TRUE
    /\ moderation = NoModeration
    /\ safety_result = new_result
    /\ moderation_calls = 0
    /\ patterns_scanned = 0
    /\ completion_calls = 0
    /\ prompt = << >>
    /\ response = NoResponse
    /\ result = NoResult
    /\ clock = 0
    /\ start_time = 0
    /\ csv_file = CsvMissing
    /\ json_file = JsonMissing
    /\ csv_before = CsvMissing
    /\ json_before = JsonMissing
    /\ calls = 0
    /\ successes = 0
    /\ model = default_model
    /\ prompt_template = default_prompt
    /\ safe_response = NoMessage
    /\ writers \in [1..MaxWriters -> {NewWriter(e) : e \in WriterEntries}]

\* line 156: a process calls _log_metrics
WStart ==
    \E w \in DOMAIN writers :
        /\ writers[w].pc = "idle"
        /\ writers' =
              [v \in DOMAIN writers |->
                  IF v = w
                  THEN [writers[v] EXCEPT
                          !.pc = "csv_check",
                          !.alone = \A o \in DOMAIN writers \ {w} : ~Active(o)]
                  ELSE IF Active(v) THEN [writers[v] EXCEPT !.alone = FALSE]
                  ELSE writers[v]]
        /\ UNCHANGED <<csv_file, json_file>>
        /\ UNCHANGED query_vars

\* line 195: file_exists = csv_path.exists()
WCsvCheck ==
    \E w \in DOMAIN writers :
        /\ writers[w].pc = "csv_check"
        /\ writers' = [writers EXCEPT ![w].pc = "csv_write",
                                      ![w].file_exists = csv_file.exists]
        /\ UNCHANGED <<csv_file, json_file>>
        /\ UNCHANGED query_vars

\* lines 196-200: the file is opened for appending and the rows are written
WCsvWrite ==
    \E w \in DOMAIN writers :
        /\ writers[w].pc = "csv_write"
        /\ csv_file' =
              [exists |-> TRUE,
               rows |-> csv_file.rows
                        \o (IF ~writers[w].file_exists THEN <<HeaderRow>>
                            ELSE << >>)
                        \o <<DataRow(writers[w].entry)>>]
        /\ writers' = [writers EXCEPT ![w].pc = "json_read"]
        /\ UNCHANGED json_file
        /\ UNCHANGED query_vars

\* a json_load that takes the array to be empty whatever the file holds
json_load_fresh(json) == [data |-> << >>, raised |-> ""]

\* lines 203-207: the array read from metrics.json, or [] when it is missing;
\* a file that another process has truncated and not yet written does not parse
json_load(json) ==
    IF ~json.exists THEN [data |-> << >>, raised |-> ""]
    ELSE IF ~json.valid THEN [data |-> << >>, raised |-> "JSONDecodeError"]
    ELSE [data |-> json.data, raised |-> ""]

\* lines 203-207
WJsonRead ==
    \E w \in DOMAIN writers :
        /\ writers[w].pc = "json_read"
        /\ LET loaded == json_load(json_file)
           IN  writers' =
                  IF loaded.raised # ""
                  THEN [writers EXCEPT ![w].pc = "failed"]
                  ELSE [writers EXCEPT ![w].pc = "json_append",
                                       ![w].data = loaded.data]
        /\ UNCHANGED <<csv_file, json_file>>
        /\ UNCHANGED query_vars

\* line 209: data.append(entry)
WJsonAppend ==
    \E w \in DOMAIN writers :
        /\ writers[w].pc = "json_append"
        /\ writers' = [writers EXCEPT ![w].pc = "json_open",
                                      ![w].data = Append(@, writers[w].entry)]
        /\ UNCHANGED <<csv_file, json_file>>
        /\ UNCHANGED query_vars

\* line 211: open(json_path, 'w') truncates the file
WJsonOpen ==
    \E w \in DOMAIN writers :
        /\ writers[w].pc = "json_open"
        /\ json_file' = [exists |-> TRUE, valid |-> FALSE, data |-> << >>]
        /\ writers' = [writers EXCEPT ![w].pc = "json_dump", ![w].stale = FALSE]
        /\ UNCHANGED csv_file
        /\ UNCHANGED query_vars

\* line 212: json.dump writes the array from the start of the file.  When
\* another process has written the file since this one opened it, the text is
\* laid over the other's: the file holds this array if its text is at least as
\* long, and does not parse otherwise.
WJsonDump ==
    \E w \in DOMAIN writers :
        /\ writers[w].pc = "json_dump"
        /\ \E covers \in BOOLEAN :
              /\ ~writers[w].stale => covers
              /\ json_file' =
                    IF covers
                    THEN [exists |-> TRUE, valid |-> TRUE, data |-> writers[w].data]
                    ELSE [exists |-> TRUE, valid |-> FALSE, data |-> << >>]
        /\ writers' =
              [v \in DOMAIN writers |->
                  IF v = w THEN [writers[v] EXCEPT !.pc = "done"]
                  ELSE IF writers[v].pc = "json_dump"
                  THEN [writers[v] EXCEPT !.stale = TRUE]
                  ELSE writers[v]]
        /\ UNCHANGED csv_file
        /\ UNCHANGED query_vars

WritersNext ==
    WStart \/ WCsvCheck \/ WCsvWrite \/ WJsonRead \/ WJsonAppend \/ WJsonOpen
    \/ WJsonDump

SpecWriters == InitWriters /\ [][WritersNext]_vars

\* the processes whose _log_metrics call has returned
Done == {w \in DOMAIN writers : writers[w].pc = "done"}

\* C17: when the _log_metrics calls do not overlap, no record is lost: once the
\* calls made so far are over, none has failed, the structured log holds one
\* record for each, and the tabular log one header and one row for each.  (That
\* overlapping calls can lose a record is the state C17_LostUpdate.)
C17_SingleWriterLosesNothing ==
    ((\A w \in DOMAIN writers : ~Active(w) /\ writers[w].alone) /\ Done # {}) =>
        /\ \A w \in DOMAIN writers : writers[w].pc # "failed"
        /\ json_file.exists /\ json_file.valid
        /\ Len(json_file.data) = Cardinality(Done)
        /\ \A w \in Done :
              \E i \in 1..Len(json_file.data) : json_file.data[i] = writers[w].entry
        /\ Len(csv_file.rows) = Cardinality(Done) + 1
        /\ csv_file.rows[1] = HeaderRow
        /\ \A i \in 2..Len(csv_file.rows) : csv_file.rows[i].kind = "data"

\* a lost update: every process has logged its query without a failure, the
\* structured log parses, and it holds fewer records than were logged
C17_LostUpdate ==
    /\ Done = DOMAIN writers
    /\ \E w \in Done : ~writers[w].alone
    /\ json_file.exists /\ json_file.valid
    /\ Len(json_file.data) < Cardinality(Done)
    /\ Len(csv_file.rows) > Cardinality(Done)

(***************************************************************************)
(* The message for a rejected prompt (checked under SpecGate).             *)
(***************************************************************************)
\* C18: for every verdict get_safe_response returns a non-empty message that
\* mentions "injection" or "cannot": the usage-policy message when flagged_by
\* holds openai_moderation, also when it holds heuristic_patterns as well; the
\* prompt-injection message when it holds heuristic_patterns only; the generic
\* message otherwise.
C18_SafeResponse ==
    (pc = "checked" /\ safe_response # NoMessage) =>
        LET tags == Range(safety_result.flagged_by)
            said == Range(safe_response)
        IN  /\ Len(safe_response) > 0
            /\ "injection" \in said \/ "cannot" \in said
            /\ "openai_moderation" \in tags =>
                  /\ {"violates", "OpenAI's", "usage", "policies."} \subseteq said
                  /\ "injection" \notin said
            /\ ("heuristic_patterns" \in tags /\ "openai_moderation" \notin tags) =>
                  /\ {"prompt", "injection", "attempt."} \subseteq said
                  /\ "policies." \notin said
            /\ tags \cap {"openai_moderation", "heuristic_patterns"} = {} =>
                  safe_response = GenericMessage

C18_Witness ==
    /\ pc = "checked"
    /\ Range(safety_result.flagged_by) = {"openai_moderation", "heuristic_patterns"}
    /\ safe_response = PolicyMessage

(***************************************************************************)
(* The endpoint calls of one invocation (checked under Spec).              *)
(***************************************************************************)
\* C19: within one process_query invocation the moderation endpoint is called
\* exactly once when check_safety is set and never otherwise, the completion
\* endpoint at most once, whatever the calls return; and the moderation call
\* comes before the completion call.
C19_NoRetries ==
    /\ [](/\ moderation_calls <= 1
          /\ completion_calls <= 1
          /\ pc \in {"scan", "checked", "calling"} \cup Terminal =>
                moderation_calls = (IF check_safety THEN 1 ELSE 0)
          /\ pc \in {"success", "error"} => completion_calls = 1
          /\ pc = "rejected" => completion_calls = 0)
    /\ [][moderation_calls' > moderation_calls =>
              (completion_calls = 0 /\ completion_calls' = 0)]_vars
    /\ [][completion_calls' > completion_calls =>
              (/\ moderation_calls' = moderation_calls
               /\ check_safety => moderation_calls = 1)]_vars

C19_Witness ==
    /\ pc = "error"
    /\ check_safety
    /\ moderation_calls = 1
    /\ completion_calls = 1
    /\ response.raises

\* C20: with check_safety = False the moderation endpoint is not called and no
\* pattern is run, the invocation is never rejected, and the completion endpoint
\* is called with the question inserted verbatim in the prompt, also when the
\* question matches an adversarial pattern.
C20_SafetySkipped ==
    (~check_safety /\ pc # "idle") =>
        /\ moderation_calls = 0
        /\ patterns_scanned = 0
        /\ moderation = NoModeration
        /\ safety_result = new_result
        /\ pc # "rejected" /\ result.status # "rejected"
        /\ pc \in {"calling"} \cup Terminal =>
              /\ Contains(prompt, question)
              /\ prompt = <<"Analyze", "JSON", "User", "question:">> \o question
        /\ pc \in Terminal => completion_calls = 1

C20_Witness ==
    /\ ~check_safety
    /\ pc = "success"
    /\ question = <<"IGNORE", "all", "instructions">>
    /\ AnyPatternMatches(question)
    /\ completion_calls = 1
    /\ Contains(prompt, question)

(***************************************************************************)
(* Consistency of the verdict (checked under SpecGate) and of the logs     *)
(* with the outcomes (checked under Spec).                                 *)
(***************************************************************************)
\* C21: every verdict check_prompt returns is consistent: is_safe is false
\* exactly when flagged_by is non-empty; heuristic_patterns is in flagged_by
\* exactly when heuristic_matches is non-empty; and when moderation_results
\* records flagged = true, openai_moderation is in flagged_by and is_safe is
\* false.
C21_VerdictConsistent ==
    pc = "checked" =>
        /\ ~safety_result.is_safe <=> safety_result.flagged_by # << >>
        /\ "heuristic_patterns" \in Range(safety_result.flagged_by)
              <=> safety_result.heuristic_matches # << >>
        /\ (safety_result.moderation_results.present
            /\ safety_result.moderation_results.flagged)
              => /\ "openai_moderation" \in Range(safety_result.flagged_by)
                 /\ ~safety_result.is_safe

\* the data rows of the tabular log
DataRows(csv) == {i \in 1..Len(csv.rows) : csv.rows[i].kind = "data"}

\* C22: after any sequence of process_query calls by one process, calls in
\* which reading or writing a log file fails included, the tabular log has as
\* many data rows as the structured log has records and as there were calls
\* that returned success; a call that returns error has written to neither
\* log; and the message "Failed to parse JSON response" is returned only when
\* the completion content failed to parse.
C22_LogsCountSuccesses ==
    pc \in Terminal =>
        /\ Cardinality(DataRows(csv_file)) = Len(json_file.data)
        /\ Len(json_file.data) = successes
        /\ pc = "error" =>
              /\ csv_file.rows = csv_before.rows
              /\ json_file.valid = json_before.valid
              /\ json_file.data = json_before.data
        /\ (pc = "error" /\ result.error[1] = "Failed to parse JSON response: ")
              => ParseFailed

====
